---- MODULE Spec2Model ----
(***************************************************************************)
(* Model of minecode.launchers: the launcher adapters (Vanilla, MultiMC,   *)
(* Prism, CurseForge) and the LauncherManager registry, over an explicit   *)
(* model of the filesystem they read and the Python values they return.    *)
(***************************************************************************)
EXTENDS Integers, Sequences, FiniteSets, TLC

VARIABLES
    fs,        \* the filesystem: canonical absolute path -> node
    detected,  \* LauncherManager.detected_launchers: sequence of <<type, launcher>>
    pc,        \* LauncherManager.__init__: the index into SUPPORTED_LAUNCHERS probed next;
               \* past the list once constructed, 0 when no manager exists
    registered, \* calls of register_custom_launcher made so far
    adapters,  \* the launcher objects the caller constructed itself, outside any manager
    last       \* the last call made: operation, arguments, result, filesystem before it

vars == <<fs, detected, pc, registered, adapters, last>>

(***************************************************************************)
(* Bounds of the model.                                                    *)
(***************************************************************************)
MaxMtime == 2      \* modification times of log files range over 1..MaxMtime
MaxRegister == 1   \* calls of register_custom_launcher in one run

(***************************************************************************)
(* Python values.  Every value is a record tagged by j.                    *)
(***************************************************************************)
PyNone == [j |-> "none"]
PyStr(s) == [j |-> "str", s |-> s]
PyBool(b) == [j |-> "bool", b |-> b]
PyNum(n) == [j |-> "num", n |-> n]
PyList(l) == [j |-> "list", l |-> l]
\* a dict in insertion order: a sequence of <<key, value>> pairs
PyObj(o) == [j |-> "obj", o |-> o]
\* a pathlib.Path: p = [abs |-> BOOLEAN, parts |-> sequence of components]
PyPath(p) == [j |-> "path", p |-> p]

\* the outcome of a call: a returned value, or the name of the exception raised
Ok(v) == [exc |-> "", val |-> v]
Raise(e) == [exc |-> e, val |-> PyNone]

\* the exception classes the handlers name, and what each except clause catches
OSErrors == {"FileNotFoundError", "NotADirectoryError", "IsADirectoryError", "PermissionError"}
IsIOError(e) == e \in OSErrors
IsJSONDecodeError(e) == e = "JSONDecodeError"
IsException(e) == e # ""

\* bool(v)
PyTruthy(v) ==
    CASE v.j = "none" -> FALSE
      [] v.j = "str" -> v.s # ""
      [] v.j = "bool" -> v.b
      [] v.j = "num" -> v.n # 0
      [] v.j = "list" -> v.l # <<>>
      [] v.j = "obj" -> v.o # <<>>
      [] OTHER -> TRUE

RECURSIVE PairsGet(_, _, _)
PairsGet(o, key, default) ==
    IF o = <<>> THEN default
    ELSE IF o[Len(o)][1] = key THEN o[Len(o)][2]
    ELSE PairsGet(SubSeq(o, 1, Len(o) - 1), key, default)

\* v.get(key, default): only a dict has .get
PyGet(v, key, default) ==
    IF v.j = "obj" THEN Ok(PairsGet(v.o, key, default)) ELSE Raise("AttributeError")

\* a local variable: Op applied to the value v
Bind(v, Op(_)) == Op(v)

(***************************************************************************)
(* Strings.                                                                *)
(***************************************************************************)
CharAt(s, i) == SubSeq(s, i, i)

StartsWith(s, pre) == Len(s) >= Len(pre) /\ SubSeq(s, 1, Len(pre)) = pre

EndsWith(s, suf) == Len(s) >= Len(suf) /\ SubSeq(s, Len(s) - Len(suf) + 1, Len(s)) = suf

RECURSIVE IndexFrom(_, _, _)
\* the first index >= i of character ch in s, or 0
IndexFrom(s, ch, i) ==
    IF i > Len(s) THEN 0
    ELSE IF CharAt(s, i) = ch THEN i
    ELSE IndexFrom(s, ch, i + 1)

RECURSIVE LStrip(_)
LStrip(s) == IF Len(s) > 0 /\ CharAt(s, 1) = " " THEN LStrip(SubSeq(s, 2, Len(s))) ELSE s

RECURSIVE RStrip(_)
RStrip(s) == IF Len(s) > 0 /\ CharAt(s, Len(s)) = " " THEN RStrip(SubSeq(s, 1, Len(s) - 1)) ELSE s

\* str.strip()
Strip(s) == RStrip(LStrip(s))

RECURSIVE SplitFrom(_, _, _, _)
SplitFrom(s, ch, i, start) ==
    IF i > Len(s) THEN << SubSeq(s, start, Len(s)) >>
    ELSE IF CharAt(s, i) = ch
         THEN << SubSeq(s, start, i - 1) >> \o SplitFrom(s, ch, i + 1, i + 1)
         ELSE SplitFrom(s, ch, i + 1, start)

\* s.split(ch)
Split(s, ch) == SplitFrom(s, ch, 1, 1)

RECURSIVE JoinStr(_, _)
\* sep.join(l)
JoinStr(l, sep) ==
    IF l = <<>> THEN ""
    ELSE IF Len(l) = 1 THEN l[1]
    ELSE l[1] \o sep \o JoinStr(Tail(l), sep)

\* a wrong pattern, "*.log*": it also matches rotated logs such as old.log.gz
MatchesLogPattern_LogStar(name) ==
    \E i \in 1..Len(name) : i + 3 <= Len(name) /\ SubSeq(name, i, i + 3) = ".log"

\* fnmatch(name, "*.log")
MatchesLogPattern(name) == EndsWith(name, ".log")

(***************************************************************************)
(* pathlib.                                                                *)
(***************************************************************************)
RECURSIVE DropEmptyAndDot(_)
DropEmptyAndDot(l) ==
    IF l = <<>> THEN <<>>
    ELSE IF Head(l) \in {"", "."} THEN DropEmptyAndDot(Tail(l))
    ELSE <<Head(l)>> \o DropEmptyAndDot(Tail(l))

\* Path(s) for a string s
ParsePath(s) == [abs |-> StartsWith(s, "/"), parts |-> DropEmptyAndDot(Split(s, "/"))]

\* p / q for two paths: an absolute right operand replaces the left one
PathJoin(p, q) == IF q.abs THEN q ELSE [abs |-> p.abs, parts |-> p.parts \o q.parts]

\* p / s for a string s
PathDiv(p, s) == PathJoin(p, ParsePath(s))

\* str(p)
PathStr(p) ==
    IF p.abs THEN "/" \o JoinStr(p.parts, "/")
    ELSE IF p.parts = <<>> THEN "." ELSE JoinStr(p.parts, "/")

\* Path(v) and p / v for a Python value v: TypeError unless str or Path
PyToPath(v) ==
    CASE v.j = "str" -> Ok(PyPath(ParsePath(v.s)))
      [] v.j = "path" -> Ok(v)
      [] OTHER -> Raise("TypeError")

AbsPath(parts) == [abs |-> TRUE, parts |-> parts]

(***************************************************************************)
(* The filesystem.  fs maps each existing canonical path (a sequence of    *)
(* names below the root) to its node; the root <<>> is a directory.        *)
(***************************************************************************)
NoContent == [k |-> "none"]
TextContent(s) == [k |-> "text", s |-> s]
LinesContent(l) == [k |-> "lines", l |-> l]
JsonContent(v) == [k |-> "json", v |-> v]
BytesContent == [k |-> "bytes"]          \* bytes that are not valid UTF-8

DirNode == [t |-> "dir", c |-> NoContent, m |-> 0]
FileNode(c, m) == [t |-> "file", c |-> c, m |-> m]
LinkNode == [t |-> "link", c |-> NoContent, m |-> 0]   \* a dangling symbolic link
NoNode == [t |-> "absent", c |-> NoContent, m |-> 0]   \* no node: never stored in fs

Cwd == <<"cwd">>

IsDirAt(f, path) == path = <<>> \/ (path \in DOMAIN f /\ f[path].t = "dir")

Parent(path) == IF path = <<>> THEN <<>> ELSE SubSeq(path, 1, Len(path) - 1)

RECURSIVE Walk(_, _, _)
\* the kernel's path walk from directory cur: [err, at]
Walk(f, cur, rest) ==
    IF rest = <<>> THEN [err |-> "", at |-> cur]
    ELSE IF ~IsDirAt(f, cur)
         THEN [err |-> IF f[cur].t = "link" THEN "FileNotFoundError" ELSE "NotADirectoryError",
               at |-> cur]
    ELSE IF Head(rest) = ".." THEN Walk(f, Parent(cur), Tail(rest))
    ELSE IF (cur \o <<Head(rest)>>) \notin DOMAIN f
         THEN [err |-> "FileNotFoundError", at |-> cur]
    ELSE Walk(f, cur \o <<Head(rest)>>, Tail(rest))

\* lstat: the canonical path of p, without following a final link
Locate(f, p) == Walk(f, <<>>, IF p.abs THEN p.parts ELSE Cwd \o p.parts)

\* os.stat(p): [err, at], following (dangling) links
Stat(f, p) ==
    Bind(Locate(f, p), LAMBDA w :
    IF w.err # "" THEN w
    ELSE IF w.at # <<>> /\ f[w.at].t = "link" THEN [err |-> "FileNotFoundError", at |-> w.at]
    ELSE w)

\* Path.exists(): ENOENT and ENOTDIR are swallowed
Exists(f, p) == Stat(f, p).err = ""

\* Path.is_dir()
IsDir(f, p) == Bind(Stat(f, p), LAMBDA w : w.err = "" /\ IsDirAt(f, w.at))

\* the names in directory at canonical path d
Children(f, d) == { q[Len(q)] : q \in { r \in DOMAIN f : Len(r) = Len(d) + 1 /\ SubSeq(r, 1, Len(d)) = d } }

\* os.listdir(p): the set of names, or the OSError
ListDir(f, p) ==
    Bind(Stat(f, p), LAMBDA w :
    IF w.err # "" THEN [err |-> w.err, names |-> {}]
    ELSE IF ~IsDirAt(f, w.at) THEN [err |-> "NotADirectoryError", names |-> {}]
    ELSE [err |-> "", names |-> Children(f, w.at)])

\* p.glob("*.log"): the matching names; nothing when p is no directory
GlobLog(f, p) ==
    Bind(ListDir(f, p), LAMBDA l :
    IF l.err # "" THEN {} ELSE { n \in l.names : MatchesLogPattern(n) })

\* open(p, 'r', encoding='utf-8') and a full read: the content, or the error
ReadFile(f, p, ignoreErrors) ==
    Bind(Stat(f, p), LAMBDA w :
    IF w.err # "" THEN [err |-> w.err, c |-> NoContent]
    ELSE IF IsDirAt(f, w.at) THEN [err |-> "IsADirectoryError", c |-> NoContent]
    ELSE IF f[w.at].c.k = "bytes"
         THEN IF ignoreErrors THEN [err |-> "", c |-> TextContent("")]
              ELSE [err |-> "UnicodeDecodeError", c |-> NoContent]
    ELSE [err |-> "", c |-> f[w.at].c])

\* the function f without path q
Without(f, q) == [r \in DOMAIN f \ {q} |-> f[r]]

\* Path.unlink(): [err, fs]
Unlink(f, p) ==
    Bind(Locate(f, p), LAMBDA w :
    IF w.err # "" THEN [err |-> w.err, fs |-> f]
    ELSE IF IsDirAt(f, w.at) THEN [err |-> "IsADirectoryError", fs |-> f]
    ELSE [err |-> "", fs |-> Without(f, w.at)])

\* all orders in which a directory listing may yield the set S
Orders(S) == { o \in [1..Cardinality(S) -> S] : \A i, k \in 1..Cardinality(S) : i # k => o[i] # o[k] }

\* the names of S in the order o lists them (o lists at least S)
RECURSIVE InOrder(_, _)
InOrder(o, S) ==
    IF o = <<>> THEN <<>>
    ELSE IF o[1] \in S THEN <<o[1]>> \o InOrder(Tail(o), S)
    ELSE InOrder(Tail(o), S)

\* json.load(open(p, 'r', encoding='utf-8'))
LoadJson(f, p) ==
    Bind(ReadFile(f, p, FALSE), LAMBDA r :
    IF r.err # "" THEN Raise(r.err)
    ELSE IF r.c.k = "json" THEN Ok(r.c.v)
    ELSE Raise("JSONDecodeError"))

\* the text lines of a decoded file
FileLines(c) == IF c.k = "lines" THEN c.l ELSE IF c.k = "text" THEN <<c.s>> ELSE <<>>

\* shutil.which("java"), an input of the environment: PyNone or a path
JavaChoices == {PyNone, PyPath(AbsPath(<<"usr", "bin", "java">>))}

\* LauncherInfo(...)
LauncherInfo(name, version, path, java, launcher_type) ==
    [j |-> "info", name |-> name, version |-> version, path |-> path,
     java_executable |-> java, launcher_type |-> launcher_type]

\* an instance dict
InstanceDict(name, version, path, type, launcher) ==
    [name |-> name, version |-> version, path |-> path, type |-> type, launcher |-> launcher]

(***************************************************************************)
(* VanillaLauncher.                                                        *)
(***************************************************************************)
VanillaLauncher_LAUNCHER_NAME == "Minecraft Launcher"

\* _get_default_path(), on Linux
VanillaLauncher_get_default_path == AbsPath(<<"home", ".minecraft">>)

VanillaLauncher_detect(f, self) ==
    Ok(PyBool(Exists(f, PathDiv(self.launcher_path, "launcher_profiles.json"))))

VanillaLauncher_get_launcher_info(f, self, java) ==
    LET profiles_file == PathDiv(self.launcher_path, "launcher_profiles.json")
        info(version) == Ok(LauncherInfo(VanillaLauncher_LAUNCHER_NAME, version,
                                         self.launcher_path, java, "vanilla"))
    IN
    IF ~Exists(f, profiles_file) THEN info(PyNone)
    ELSE Bind(LoadJson(f, profiles_file), LAMBDA data :
         IF IsJSONDecodeError(data.exc) \/ IsIOError(data.exc) THEN info(PyNone)
         ELSE IF data.exc # "" THEN Raise(data.exc)
         ELSE Bind(PyGet(data.val, "launcherVersion", PyObj(<<>>)), LAMBDA lv :
              IF lv.exc # "" THEN Raise(lv.exc)
              ELSE Bind(PyGet(lv.val, "name", PyNone), LAMBDA nm :
                   IF nm.exc # "" THEN Raise(nm.exc) ELSE info(nm.val))))

\* one iteration of the loop over profiles.items()
VanillaLauncher_profile_instance(self, profile_name, profile_data) ==
    Bind(PyGet(profile_data, "lastVersionId", PyStr("Unknown")), LAMBDA version :
    IF version.exc # "" THEN Raise(version.exc)
    ELSE \* the default of .get is evaluated before the call
         Bind(PyToPath(version.val), LAMBDA vp :
         IF vp.exc # "" THEN Raise(vp.exc)
         ELSE LET dflt == PyPath(PathJoin(PathDiv(self.launcher_path, "versions"), vp.val.p))
                  gd == PyGet(profile_data, "gameDir", dflt)
                  game_dir == PyToPath(gd.val)
              IN
              IF game_dir.exc # "" THEN Raise(game_dir.exc)
              ELSE Ok(InstanceDict(profile_name, version.val, PathStr(game_dir.val.p),
                                   "profile", "vanilla"))))

RECURSIVE VanillaLauncher_profiles_loop(_, _, _)
VanillaLauncher_profiles_loop(self, items, instances) ==
    IF items = <<>> THEN Ok(PyList(instances))
    ELSE Bind(VanillaLauncher_profile_instance(self, items[1][1], items[1][2]), LAMBDA one :
         IF one.exc # "" THEN Raise(one.exc)
         ELSE VanillaLauncher_profiles_loop(self, Tail(items), Append(instances, one.val)))

VanillaLauncher_get_instances(f, self) ==
    Bind(PathDiv(self.launcher_path, "launcher_profiles.json"), LAMBDA profiles_file :
    IF ~Exists(f, profiles_file) THEN Ok(PyList(<<>>))
    ELSE Bind(LoadJson(f, profiles_file), LAMBDA data :
         IF IsJSONDecodeError(data.exc) \/ IsIOError(data.exc) THEN Ok(PyList(<<>>))
         ELSE IF data.exc # "" THEN Raise(data.exc)
         ELSE Bind(PyGet(data.val, "profiles", PyObj(<<>>)), LAMBDA profiles :
              IF profiles.exc # "" THEN Raise(profiles.exc)
              ELSE IF profiles.val.j # "obj" THEN Raise("AttributeError")   \* .items()
              ELSE VanillaLauncher_profiles_loop(self, profiles.val.o, <<>>))))

VanillaLauncher_get_instance_logs_directory(f, self, instance_name) ==
    Bind(PathDiv(self.launcher_path, "launcher_profiles.json"), LAMBDA profiles_file :
    IF ~Exists(f, profiles_file) THEN Ok(PyNone)
    ELSE Bind(LoadJson(f, profiles_file), LAMBDA data :
         IF IsJSONDecodeError(data.exc) \/ IsIOError(data.exc) THEN Ok(PyNone)
         ELSE IF data.exc # "" THEN Raise(data.exc)
         ELSE Bind(PyGet(data.val, "profiles", PyObj(<<>>)), LAMBDA profiles :
              IF profiles.exc # "" THEN Raise(profiles.exc)
              ELSE Bind(PyGet(profiles.val, instance_name, PyNone), LAMBDA profile :
                   IF profile.exc # "" THEN Raise(profile.exc)
                   ELSE IF ~PyTruthy(profile.val) THEN Ok(PyNone)
                   ELSE Bind(PyGet(profile.val, "gameDir", PyPath(self.launcher_path)), LAMBDA gd :
                        IF gd.exc # "" THEN Raise(gd.exc)
                        ELSE Bind(PyToPath(gd.val), LAMBDA game_dir :
                             IF game_dir.exc # "" THEN Raise(game_dir.exc)
                             ELSE Bind(PathDiv(game_dir.val.p, "logs"), LAMBDA logs_dir :
                                  IF Exists(f, logs_dir) THEN Ok(PyPath(logs_dir))
                                  ELSE Ok(PyNone))))))))

\* st_mtime of the file a glob result names; following a dangling link fails
MtimeOf(f, p) ==
    Bind(Stat(f, p), LAMBDA w :
    IF w.err # "" THEN [err |-> w.err, m |-> 0] ELSE [err |-> "", m |-> f[w.at].m])

RECURSIVE InsertByMtimeDesc(_, _, _)
\* insert name n (mtime m) after every element whose mtime is >= m: a stable descending sort
InsertByMtimeDesc(sorted, n, mt) ==
    IF sorted = <<>> THEN <<n>>
    ELSE IF mt[sorted[1]] >= mt[n] THEN <<sorted[1]>> \o InsertByMtimeDesc(Tail(sorted), n, mt)
    ELSE <<n>> \o sorted

RECURSIVE SortByMtimeDesc(_, _)
\* sorted(names, key=mtime, reverse=True); equal keys keep their listing order
SortByMtimeDesc(names, mt) ==
    IF names = <<>> THEN <<>>
    ELSE InsertByMtimeDesc(SortByMtimeDesc(SubSeq(names, 1, Len(names) - 1), mt),
                           names[Len(names)], mt)

\* the read of a chosen log file, shared by the three get_logs bodies
ReadLog(f, p) ==
    Bind(ReadFile(f, p, TRUE), LAMBDA r :
    IF IsIOError(r.err) THEN Ok(PyStr("Error reading log: " \o r.err))
    ELSE IF r.err # "" THEN Raise(r.err)
    ELSE Ok(PyStr(JoinStr(FileLines(r.c), "\n"))))

VanillaLauncher_get_logs(f, self, instance_name, order) ==
    Bind(VanillaLauncher_get_instance_logs_directory(f, self, instance_name), LAMBDA d :
    IF d.exc # "" THEN Raise(d.exc)
    ELSE IF d.val.j = "none" \/ ~Exists(f, d.val.p) THEN Ok(PyNone)
    ELSE LET names == InOrder(order, GlobLog(f, d.val.p))
             st == [n \in GlobLog(f, d.val.p) |-> MtimeOf(f, PathDiv(d.val.p, n))]
             bad == { n \in DOMAIN st : st[n].err # "" }
         IN
         IF bad # {} THEN Raise("FileNotFoundError")
         ELSE Bind(SortByMtimeDesc(names, [n \in DOMAIN st |-> st[n].m]), LAMBDA log_files :
              IF log_files = <<>> THEN Ok(PyNone)
              ELSE ReadLog(f, PathDiv(d.val.p, log_files[1]))))

\* a wrong loop: it ends after the first file
UnlinkAll_FirstOnly(f, dir, names) ==
    IF names = <<>> THEN [err |-> "", fs |-> f] ELSE Unlink(f, PathDiv(dir, names[1]))

RECURSIVE UnlinkAll(_, _, _)
\* for log_file in ...: log_file.unlink(), stopping at the first error: [err, fs]
UnlinkAll(f, dir, names) ==
    IF names = <<>> THEN [err |-> "", fs |-> f]
    ELSE Bind(Unlink(f, PathDiv(dir, names[1])), LAMBDA u :
         IF u.err # "" THEN u ELSE UnlinkAll(u.fs, dir, Tail(names)))

\* the try block the three clear_logs bodies share: [res, fs]
ClearDir(f, dir, order) ==
    Bind(UnlinkAll(f, dir, InOrder(order, GlobLog(f, dir))), LAMBDA u :
    IF u.err = "" THEN [res |-> Ok(PyBool(TRUE)), fs |-> u.fs]
    ELSE IF IsIOError(u.err) THEN [res |-> Ok(PyBool(FALSE)), fs |-> u.fs]
    ELSE [res |-> Raise(u.err), fs |-> u.fs])

VanillaLauncher_clear_logs(f, self, instance_name, order) ==
    Bind(VanillaLauncher_get_instance_logs_directory(f, self, instance_name), LAMBDA d :
    IF d.exc # "" THEN [res |-> Raise(d.exc), fs |-> f]
    ELSE IF d.val.j = "none" \/ ~Exists(f, d.val.p) THEN [res |-> Ok(PyBool(FALSE)), fs |-> f]
    ELSE ClearDir(f, d.val.p, order))

(***************************************************************************)
(* MultiMCLauncher.                                                        *)
(***************************************************************************)
MultiMCLauncher_LAUNCHER_NAME == "MultiMC"

\* _get_default_path(), on Linux
MultiMCLauncher_get_default_path == AbsPath(<<"home", ".local", "share", "multimc">>)

MultiMCLauncher_detect(f, self) ==
    Ok(PyBool(Exists(f, PathDiv(self.launcher_path, "instances"))))

\* version_file.read_text(encoding='utf-8').strip() under "except IOError: pass"
ReadVersionFile(f, version_file) ==
    IF ~Exists(f, version_file) THEN Ok(PyNone)
    ELSE Bind(ReadFile(f, version_file, FALSE), LAMBDA r :
         IF IsIOError(r.err) THEN Ok(PyNone)
         ELSE IF r.err # "" THEN Raise(r.err)
         ELSE Ok(PyStr(Strip(JoinStr(FileLines(r.c), "\n")))))

MultiMCLauncher_get_launcher_info(f, self, java) ==
    Bind(ReadVersionFile(f, PathDiv(self.launcher_path, "version.txt")), LAMBDA version :
    IF version.exc # "" THEN Raise(version.exc)
    ELSE Ok(LauncherInfo(MultiMCLauncher_LAUNCHER_NAME, version.val, self.launcher_path,
                         java, "multimc")))

RECURSIVE ParseCfgLines(_, _)
\* the loop over the lines of instance.cfg: the config dict, as <<key, value>> pairs
ParseCfgLines(lines, config) ==
    IF lines = <<>> THEN config
    ELSE LET line == Strip(lines[1])
             eq == IndexFrom(line, "=", 1)
         IN
         IF eq > 0 /\ ~StartsWith(line, "[")
         THEN ParseCfgLines(Tail(lines),
                  Append(config, << Strip(SubSeq(line, 1, eq - 1)),
                                    PyStr(Strip(SubSeq(line, eq + 1, Len(line)))) >>))
         ELSE ParseCfgLines(Tail(lines), config)

RECURSIVE MultiMCLauncher_instances_loop(_, _, _, _)
\* the loop over instances_dir.iterdir()
MultiMCLauncher_instances_loop(f, instances_dir, names, instances) ==
    IF names = <<>> THEN Ok(PyList(instances))
    ELSE LET instance_path == PathDiv(instances_dir, names[1])
             instance_cfg == PathDiv(instance_path, "instance.cfg")
             rest == Tail(names)
         IN
         IF ~IsDir(f, instance_path) THEN MultiMCLauncher_instances_loop(f, instances_dir, rest, instances)
         ELSE IF ~Exists(f, instance_cfg) THEN MultiMCLauncher_instances_loop(f, instances_dir, rest, instances)
         ELSE Bind(ReadFile(f, instance_cfg, FALSE), LAMBDA r :
              IF IsIOError(r.err) THEN MultiMCLauncher_instances_loop(f, instances_dir, rest, instances)
              ELSE IF r.err # "" THEN Raise(r.err)
              ELSE Bind(ParseCfgLines(FileLines(r.c), <<>>), LAMBDA config :
                   MultiMCLauncher_instances_loop(f, instances_dir, rest,
                       Append(instances,
                              InstanceDict(names[1], PairsGet(config, "InstanceType", PyStr("Unknown")),
                                           PathStr(instance_path), "instance", "multimc")))))

MultiMCLauncher_get_instances(f, self, order) ==
    Bind(PathDiv(self.launcher_path, "instances"), LAMBDA instances_dir :
    IF ~Exists(f, instances_dir) THEN Ok(PyList(<<>>))
    ELSE Bind(ListDir(f, instances_dir), LAMBDA l :
         IF l.err # "" THEN Raise(l.err)
         ELSE MultiMCLauncher_instances_loop(f, instances_dir, InOrder(order, l.names), <<>>)))

MultiMCLauncher_get_instance_logs_directory(f, self, instance_name) ==
    Bind(PathDiv(PathDiv(self.launcher_path, "instances"), instance_name), LAMBDA instance_path :
    IF ~Exists(f, instance_path) THEN Ok(PyNone)
    ELSE Bind(PathDiv(PathDiv(instance_path, ".minecraft"), "logs"), LAMBDA logs_dir :
         IF Exists(f, logs_dir) THEN Ok(PyPath(logs_dir)) ELSE Ok(PyNone)))

\* the part of get_logs after the directory is resolved, shared by MultiMC and CurseForge
LatestLog(f, d) ==
    IF d.exc # "" THEN Raise(d.exc)
    ELSE IF d.val.j = "none" \/ ~Exists(f, d.val.p) THEN Ok(PyNone)
    ELSE Bind(PathDiv(d.val.p, "latest.log"), LAMBDA latest_log :
         IF Exists(f, latest_log) THEN ReadLog(f, latest_log) ELSE Ok(PyNone))

MultiMCLauncher_get_logs(f, self, instance_name) ==
    LatestLog(f, MultiMCLauncher_get_instance_logs_directory(f, self, instance_name))

MultiMCLauncher_clear_logs(f, self, instance_name, order) ==
    Bind(MultiMCLauncher_get_instance_logs_directory(f, self, instance_name), LAMBDA d :
    IF d.exc # "" THEN [res |-> Raise(d.exc), fs |-> f]
    ELSE IF d.val.j = "none" \/ ~Exists(f, d.val.p) THEN [res |-> Ok(PyBool(FALSE)), fs |-> f]
    ELSE ClearDir(f, d.val.p, order))

(***************************************************************************)
(* PrismLauncherHandler(MultiMCLauncher): what the subclass itself defines. *)
(***************************************************************************)
PrismLauncherHandler_LAUNCHER_NAME == "Prism Launcher"

\* _get_default_path(), on Linux
PrismLauncherHandler_get_default_path == AbsPath(<<"home", ".local", "share", "PrismLauncher">>)

PrismLauncherHandler_detect(f, self) ==
    Ok(PyBool(Exists(f, PathDiv(self.launcher_path, "instances"))))

PrismLauncherHandler_get_launcher_info(f, self, java) ==
    Bind(ReadVersionFile(f, PathDiv(self.launcher_path, "prismlauncher_version.txt")), LAMBDA version :
    IF version.exc # "" THEN Raise(version.exc)
    ELSE Ok(LauncherInfo(PrismLauncherHandler_LAUNCHER_NAME, version.val, self.launcher_path,
                         java, "prism")))

(***************************************************************************)
(* CurseForgeLauncher.                                                     *)
(***************************************************************************)
CurseForgeLauncher_LAUNCHER_NAME == "CurseForge Launcher"

\* _get_default_path(), on Linux
CurseForgeLauncher_get_default_path == AbsPath(<<"home", ".curseforge">>)

CurseForgeLauncher_detect(f, self) ==
    Ok(PyBool(Exists(f, PathDiv(self.launcher_path, "Instances"))))

CurseForgeLauncher_get_launcher_info(f, self, java) ==
    Ok(LauncherInfo(CurseForgeLauncher_LAUNCHER_NAME, PyNone, self.launcher_path, java, "curseforge"))

\* the version entry of one instance: manifest.get("minecraft", {}).get("version", "Unknown")
CurseForgeLauncher_manifest_version(f, manifest_file) ==
    IF ~Exists(f, manifest_file) THEN Ok(PyStr("Unknown"))
    ELSE Bind(LoadJson(f, manifest_file), LAMBDA manifest :
         IF IsJSONDecodeError(manifest.exc) \/ IsIOError(manifest.exc) THEN Ok(PyStr("Unknown"))
         ELSE IF manifest.exc # "" THEN Raise(manifest.exc)
         ELSE Bind(PyGet(manifest.val, "minecraft", PyObj(<<>>)), LAMBDA mc :
              IF mc.exc # "" THEN Raise(mc.exc)
              ELSE PyGet(mc.val, "version", PyStr("Unknown"))))

RECURSIVE CurseForgeLauncher_instances_loop(_, _, _, _)
\* the loop over instances_dir.iterdir()
CurseForgeLauncher_instances_loop(f, instances_dir, names, instances) ==
    IF names = <<>> THEN Ok(PyList(instances))
    ELSE Bind(PathDiv(instances_dir, names[1]), LAMBDA instance_path :
         IF ~IsDir(f, instance_path)
         THEN CurseForgeLauncher_instances_loop(f, instances_dir, Tail(names), instances)
         ELSE Bind(CurseForgeLauncher_manifest_version(f, PathDiv(instance_path, "manifest.json")), LAMBDA version :
              IF version.exc # "" THEN Raise(version.exc)
              ELSE CurseForgeLauncher_instances_loop(f, instances_dir, Tail(names),
                       Append(instances,
                              InstanceDict(names[1], version.val, PathStr(instance_path),
                                           "modpack", "curseforge")))))

CurseForgeLauncher_get_instances(f, self, order) ==
    Bind(PathDiv(self.launcher_path, "Instances"), LAMBDA instances_dir :
    IF ~Exists(f, instances_dir) THEN Ok(PyList(<<>>))
    ELSE Bind(ListDir(f, instances_dir), LAMBDA l :
         IF l.err # "" THEN Raise(l.err)
         ELSE CurseForgeLauncher_instances_loop(f, instances_dir, InOrder(order, l.names), <<>>)))

CurseForgeLauncher_get_instance_logs_directory(f, self, instance_name) ==
    Bind(PathDiv(PathDiv(self.launcher_path, "Instances"), instance_name), LAMBDA instance_path :
    IF ~Exists(f, instance_path) THEN Ok(PyNone)
    ELSE LET first == PathDiv(PathDiv(instance_path, ".minecraft"), "logs")
             logs_dir == IF Exists(f, first) THEN first ELSE PathDiv(instance_path, "logs")
         IN
         IF Exists(f, logs_dir) THEN Ok(PyPath(logs_dir)) ELSE Ok(PyNone))

CurseForgeLauncher_get_logs(f, self, instance_name) ==
    LatestLog(f, CurseForgeLauncher_get_instance_logs_directory(f, self, instance_name))

CurseForgeLauncher_clear_logs(f, self, instance_name, order) ==
    Bind(CurseForgeLauncher_get_instance_logs_directory(f, self, instance_name), LAMBDA d :
    IF d.exc # "" THEN [res |-> Raise(d.exc), fs |-> f]
    ELSE IF d.val.j = "none" \/ ~Exists(f, d.val.p) THEN [res |-> Ok(PyBool(FALSE)), fs |-> f]
    ELSE ClearDir(f, d.val.p, order))

(***************************************************************************)
(* Launcher objects and method dispatch.                                   *)
(***************************************************************************)
\* launcher_class(launcher_path): BaseLauncher.__init__ stores the path
NewLauncher(cls, launcher_path) == [j |-> "launcher", cls |-> cls, launcher_path |-> launcher_path]

\* a launcher written by a third party: each method returns or raises what beh says
CustomLauncher(beh) == [j |-> "launcher", cls |-> "Custom", beh |-> beh]

\* a wrong class statement: PrismLauncherHandler deriving from BaseLauncher directly
BaseOf_NoInheritance(cls) == "BaseLauncher"

\* the class statements: base class, and the methods each class body defines
BaseOf(cls) == IF cls = "PrismLauncherHandler" THEN "MultiMCLauncher" ELSE "BaseLauncher"

AllMethods == {"detect", "get_launcher_info", "get_instances", "get_logs", "clear_logs",
               "get_instance_logs_directory"}

ClassBody(cls) ==
    CASE cls = "PrismLauncherHandler" -> {"detect", "get_launcher_info"}
      [] cls = "BaseLauncher" -> {"get_instance_logs_directory"}
      [] OTHER -> AllMethods

RECURSIVE MethodOwner(_, _)
\* attribute lookup along the method resolution order
MethodOwner(cls, method) ==
    IF method \in ClassBody(cls) \/ cls = "BaseLauncher" THEN cls
    ELSE MethodOwner(BaseOf(cls), method)

\* launcher_class() with no argument: the default path
DefaultPath(cls) ==
    CASE cls = "VanillaLauncher" -> VanillaLauncher_get_default_path
      [] cls = "MultiMCLauncher" -> MultiMCLauncher_get_default_path
      [] cls = "PrismLauncherHandler" -> PrismLauncherHandler_get_default_path
      [] cls = "CurseForgeLauncher" -> CurseForgeLauncher_get_default_path

\* launcher_class(): the adapter on its default path
DefaultLauncher(cls) == NewLauncher(cls, DefaultPath(cls))

Launcher_detect(f, self) ==
    Bind(MethodOwner(self.cls, "detect"), LAMBDA o :
    CASE o = "VanillaLauncher" -> VanillaLauncher_detect(f, self)
      [] o = "MultiMCLauncher" -> MultiMCLauncher_detect(f, self)
      [] o = "PrismLauncherHandler" -> PrismLauncherHandler_detect(f, self)
      [] o = "CurseForgeLauncher" -> CurseForgeLauncher_detect(f, self)
      [] o = "BaseLauncher" -> Ok(PyNone)     \* the body of every base method is "pass"
      [] OTHER -> self.beh.detect)

Launcher_get_launcher_info(f, self, java) ==
    Bind(MethodOwner(self.cls, "get_launcher_info"), LAMBDA o :
    CASE o = "VanillaLauncher" -> VanillaLauncher_get_launcher_info(f, self, java)
      [] o = "MultiMCLauncher" -> MultiMCLauncher_get_launcher_info(f, self, java)
      [] o = "PrismLauncherHandler" -> PrismLauncherHandler_get_launcher_info(f, self, java)
      [] o = "CurseForgeLauncher" -> CurseForgeLauncher_get_launcher_info(f, self, java)
      [] o = "BaseLauncher" -> Ok(PyNone)
      [] OTHER -> self.beh.get_launcher_info)

Launcher_get_instances(f, self, order) ==
    Bind(MethodOwner(self.cls, "get_instances"), LAMBDA o :
    CASE o = "VanillaLauncher" -> VanillaLauncher_get_instances(f, self)
      [] o = "MultiMCLauncher" -> MultiMCLauncher_get_instances(f, self, order)
      [] o = "CurseForgeLauncher" -> CurseForgeLauncher_get_instances(f, self, order)
      [] o = "BaseLauncher" -> Ok(PyNone)
      [] OTHER -> self.beh.get_instances)

Launcher_get_instance_logs_directory(f, self, instance_name) ==
    Bind(MethodOwner(self.cls, "get_instance_logs_directory"), LAMBDA o :
    CASE o = "VanillaLauncher" -> VanillaLauncher_get_instance_logs_directory(f, self, instance_name)
      [] o = "MultiMCLauncher" -> MultiMCLauncher_get_instance_logs_directory(f, self, instance_name)
      [] o = "CurseForgeLauncher" -> CurseForgeLauncher_get_instance_logs_directory(f, self, instance_name)
      [] o = "BaseLauncher" -> Ok(PyNone)
      [] OTHER -> self.beh.get_instance_logs_directory)

Launcher_get_logs(f, self, instance_name, order) ==
    Bind(MethodOwner(self.cls, "get_logs"), LAMBDA o :
    CASE o = "VanillaLauncher" -> VanillaLauncher_get_logs(f, self, instance_name, order)
      [] o = "MultiMCLauncher" -> MultiMCLauncher_get_logs(f, self, instance_name)
      [] o = "CurseForgeLauncher" -> CurseForgeLauncher_get_logs(f, self, instance_name)
      [] o = "BaseLauncher" -> Ok(PyNone)
      [] OTHER -> self.beh.get_logs)

\* [res, fs]
Launcher_clear_logs(f, self, instance_name, order) ==
    Bind(MethodOwner(self.cls, "clear_logs"), LAMBDA o :
    CASE o = "VanillaLauncher" -> VanillaLauncher_clear_logs(f, self, instance_name, order)
      [] o = "MultiMCLauncher" -> MultiMCLauncher_clear_logs(f, self, instance_name, order)
      [] o = "CurseForgeLauncher" -> CurseForgeLauncher_clear_logs(f, self, instance_name, order)
      [] o = "BaseLauncher" -> [res |-> Ok(PyNone), fs |-> f]
      [] OTHER -> [res |-> self.beh.clear_logs, fs |-> f])

(***************************************************************************)
(* LauncherManager.                                                        *)
(***************************************************************************)
SUPPORTED_LAUNCHERS ==
    << <<"vanilla", "VanillaLauncher">>, <<"multimc", "MultiMCLauncher">>,
       <<"prism", "PrismLauncherHandler">>, <<"curseforge", "CurseForgeLauncher">> >>

\* d[key] = value on a dict kept as pairs: an existing key keeps its position
RECURSIVE DictSet(_, _, _)
DictSet(d, key, value) ==
    IF d = <<>> THEN << <<key, value>> >>
    ELSE IF d[1][1] = key THEN << <<key, value>> >> \o Tail(d)
    ELSE <<d[1]>> \o DictSet(Tail(d), key, value)

DictKeys(d) == [i \in 1..Len(d) |-> d[i][1]]

\* launcher_class() followed by launcher.detect() for entry i of SUPPORTED_LAUNCHERS;
\* fault is what the environment does to the probe: "none", "ctor" (the constructor
\* raises, Path.home() finding no home directory), "detect" (the stat of detect() is
\* refused)
LauncherManager_probe(f, i, fault) ==
    IF fault = "ctor" THEN Raise("RuntimeError")
    ELSE IF fault = "detect" THEN Raise("PermissionError")
    ELSE Launcher_detect(f, DefaultLauncher(SUPPORTED_LAUNCHERS[i][2]))

RECURSIVE LauncherManager_detect_all_launchers(_, _, _, _)
\* the loop of _detect_all_launchers from entry i on; faults[i] is the fault of probe i
LauncherManager_detect_all_launchers(f, det, i, faults) ==
    IF i > Len(SUPPORTED_LAUNCHERS) THEN det
    ELSE Bind(LauncherManager_probe(f, i, faults[i]), LAMBDA d :
         LauncherManager_detect_all_launchers(f,
             IF ~IsException(d.exc) /\ PyTruthy(d.val)
             THEN DictSet(det, SUPPORTED_LAUNCHERS[i][1], DefaultLauncher(SUPPORTED_LAUNCHERS[i][2]))
             ELSE det,
             i + 1, faults))

RECURSIVE LauncherManager_detect_all_launchers_NoIsolation(_, _, _, _)
\* a wrong loop: the try statement around the loop instead of inside it, so the first
\* exception ends the detection
LauncherManager_detect_all_launchers_NoIsolation(f, det, i, faults) ==
    IF i > Len(SUPPORTED_LAUNCHERS) THEN det
    ELSE Bind(LauncherManager_probe(f, i, faults[i]), LAMBDA d :
         IF IsException(d.exc) THEN det
         ELSE LauncherManager_detect_all_launchers_NoIsolation(f,
                  IF PyTruthy(d.val)
                  THEN DictSet(det, SUPPORTED_LAUNCHERS[i][1], DefaultLauncher(SUPPORTED_LAUNCHERS[i][2]))
                  ELSE det,
                  i + 1, faults))

LauncherManager_init_NoIsolation(f, faults) ==
    LauncherManager_detect_all_launchers_NoIsolation(f, <<>>, 1, faults)

\* LauncherManager()
LauncherManager_init(f, faults) == LauncherManager_detect_all_launchers(f, <<>>, 1, faults)

LauncherManager_get_available_launchers(det) == Ok(PyList(DictKeys(det)))

LauncherManager_get_launcher(det, launcher_type) == Ok(PairsGet(det, launcher_type, PyNone))

RECURSIVE LauncherManager_get_all_instances_loop(_, _, _, _)
LauncherManager_get_all_instances_loop(f, items, order, all_instances) ==
    IF items = <<>> THEN Ok(PyObj(all_instances))
    ELSE Bind(Launcher_get_instances(f, items[1][2], order), LAMBDA r :
         LauncherManager_get_all_instances_loop(f, Tail(items), order,
             DictSet(all_instances, items[1][1], IF r.exc # "" THEN PyList(<<>>) ELSE r.val)))

RECURSIVE LauncherManager_get_all_instances_loop_Omitting(_, _, _, _)
\* a wrong handler: the failing launcher gets no entry
LauncherManager_get_all_instances_loop_Omitting(f, items, order, all_instances) ==
    IF items = <<>> THEN Ok(PyObj(all_instances))
    ELSE Bind(Launcher_get_instances(f, items[1][2], order), LAMBDA r :
         LauncherManager_get_all_instances_loop_Omitting(f, Tail(items), order,
             IF r.exc # "" THEN all_instances ELSE DictSet(all_instances, items[1][1], r.val)))

LauncherManager_get_all_instances_Omitting(f, det, order) ==
    LauncherManager_get_all_instances_loop_Omitting(f, det, order, <<>>)

LauncherManager_get_all_instances(f, det, order) ==
    LauncherManager_get_all_instances_loop(f, det, order, <<>>)

RECURSIVE LauncherManager_get_launcher_infos_loop(_, _, _, _)
LauncherManager_get_launcher_infos_loop(f, items, java, infos) ==
    IF items = <<>> THEN Ok(PyObj(infos))
    ELSE Bind(Launcher_get_launcher_info(f, items[1][2], java), LAMBDA r :
         LauncherManager_get_launcher_infos_loop(f, Tail(items), java,
             IF r.exc # "" THEN infos ELSE DictSet(infos, items[1][1], r.val)))

LauncherManager_get_launcher_infos(f, det, java) ==
    LauncherManager_get_launcher_infos_loop(f, det, java, <<>>)

\* a wrong get_logs: the launcher's None is handed on
LauncherManager_get_logs_PassNone(f, det, launcher_type, instance_name, order) ==
    Bind(PairsGet(det, launcher_type, PyNone), LAMBDA launcher :
    IF ~PyTruthy(launcher) THEN Ok(PyStr("Launcher " \o launcher_type \o " not found"))
    ELSE Bind(Launcher_get_logs(f, launcher, instance_name, order), LAMBDA logs :
         IF logs.exc # "" THEN Ok(PyStr("Error retrieving logs: " \o logs.exc))
         ELSE Ok(logs.val)))

LauncherManager_get_logs(f, det, launcher_type, instance_name, order) ==
    Bind(PairsGet(det, launcher_type, PyNone), LAMBDA launcher :
    IF ~PyTruthy(launcher) THEN Ok(PyStr("Launcher " \o launcher_type \o " not found"))
    ELSE Bind(Launcher_get_logs(f, launcher, instance_name, order), LAMBDA logs :
         IF logs.exc # "" THEN Ok(PyStr("Error retrieving logs: " \o logs.exc))
         ELSE IF logs.val.j = "none" THEN Ok(PyStr("No logs found for instance " \o instance_name))
         ELSE Ok(logs.val)))

\* [res, fs]
LauncherManager_clear_logs(f, det, launcher_type, instance_name, order) ==
    Bind(PairsGet(det, launcher_type, PyNone), LAMBDA launcher :
    IF ~PyTruthy(launcher) THEN [res |-> Ok(PyBool(FALSE)), fs |-> f]
    ELSE Bind(Launcher_clear_logs(f, launcher, instance_name, order), LAMBDA r :
         IF r.res.exc # "" THEN [res |-> Ok(PyBool(FALSE)), fs |-> r.fs] ELSE r))

LauncherManager_get_instance_logs_directory(f, det, launcher_type, instance_name) ==
    Bind(PairsGet(det, launcher_type, PyNone), LAMBDA launcher :
    IF ~PyTruthy(launcher) THEN Ok(PyNone)
    ELSE Bind(Launcher_get_instance_logs_directory(f, launcher, instance_name), LAMBDA r :
         IF r.exc # "" THEN Ok(PyNone) ELSE r))

\* a wrong registration: the launcher is stored only when its detect() returns true
LauncherManager_register_custom_launcher_Detecting(det, launcher_type, launcher) ==
    Bind(Launcher_detect(<<>>, launcher), LAMBDA d :
    IF d.exc = "" /\ PyTruthy(d.val) THEN DictSet(det, launcher_type, launcher) ELSE det)

LauncherManager_register_custom_launcher(det, launcher_type, launcher) ==
    DictSet(det, launcher_type, launcher)

(***************************************************************************)
(* The directory trees the adapters are run on.                            *)
(***************************************************************************)
Dirs(S) == [q \in S |-> DirNode]

NoFiles == [q \in {} |-> DirNode]

Prefixes(path) == { SubSeq(path, 1, i) : i \in 1..Len(path) }

\* what a logs directory holds: latest.log (a file of some age, a directory, a
\* dangling link or nothing), old.log (a file of some age or nothing), old.log.gz
LatestChoices(M) == {<<"absent", 0>>, <<"dir", MaxMtime>>, <<"link", 0>>} \cup { <<"file", m>> : m \in M }

OldChoices(M) == {<<"absent", 0>>} \cup { <<"file", m>> : m \in M }

LogShapes(M) == { [present |-> TRUE, latest |-> l, old |-> o, gz |-> g] : l \in LatestChoices(M), o \in OldChoices(M), g \in BOOLEAN }

PlainLogs == [present |-> TRUE, latest |-> <<"file", 1>>, old |-> <<"file", 1>>, gz |-> TRUE]

\* no logs directory at all
NoLogDir == [present |-> FALSE, latest |-> <<"absent", 0>>, old |-> <<"absent", 0>>, gz |-> FALSE]

\* the logs directory dir with the files of shape s; tag marks whose logs they are
LogDirTree(dir, tag, s) ==
    Dirs({dir})
    @@ (CASE s.latest[1] = "file" -> (dir \o <<"latest.log">>) :> FileNode(TextContent(tag \o " latest"), s.latest[2])
          [] s.latest[1] = "dir" -> (dir \o <<"latest.log">>) :> [t |-> "dir", c |-> NoContent, m |-> s.latest[2]]
          [] s.latest[1] = "link" -> (dir \o <<"latest.log">>) :> LinkNode
          [] OTHER -> NoFiles)
    @@ (IF s.old[1] = "file"
        THEN (dir \o <<"old.log">>) :> FileNode(TextContent(tag \o " old"), s.old[2]) ELSE NoFiles)
    @@ (IF s.gz THEN (dir \o <<"old.log.gz">>) :> FileNode(BytesContent, 1) ELSE NoFiles)

MaybeLogDir(dir, tag, s) == IF s.present THEN LogDirTree(dir, tag, s) ELSE NoFiles

\* --- MultiMC and Prism: instances/<name>/instance.cfg, .minecraft/logs
CfgContent(c) ==
    CASE c = "ok" -> FileNode(LinesContent(<<"[General]", "InstanceType=OneSix", "name = My Pack">>), 1)
      [] c = "notype" -> FileNode(LinesContent(<<"[General]", "name=Other">>), 1)
      [] c = "bytes" -> FileNode(BytesContent, 1)
      [] c = "dir" -> DirNode

\* s = [kind, cfg, mc, logs]
FamilyInstanceTree(base, name, s) ==
    LET inst == base \o <<name>> IN
    CASE s.kind = "absent" -> NoFiles
      [] s.kind = "file" -> inst :> FileNode(TextContent("not a directory"), 1)
      [] OTHER ->
           Dirs({inst})
           @@ (IF s.cfg = "absent" THEN NoFiles ELSE (inst \o <<"instance.cfg">>) :> CfgContent(s.cfg))
           @@ (CASE s.mc = "absent" -> NoFiles
                 [] s.mc = "nologs" -> Dirs({inst \o <<".minecraft">>})
                 [] s.mc = "logsfile" -> Dirs({inst \o <<".minecraft">>})
                        @@ ((inst \o <<".minecraft", "logs">>) :> FileNode(TextContent("x"), 1))
                 [] OTHER -> Dirs({inst \o <<".minecraft">>})
                        @@ LogDirTree(inst \o <<".minecraft", "logs">>, name, s.logs))

FamilyInstance(kind, cfg, mc, logs) == [kind |-> kind, cfg |-> cfg, mc |-> mc, logs |-> logs]

AbsentInstance == FamilyInstance("absent", "absent", "absent", PlainLogs)

RichFamilyInstances ==
    {AbsentInstance, FamilyInstance("file", "absent", "absent", PlainLogs)}
    \cup { FamilyInstance("dir", c, "logs", PlainLogs) : c \in {"absent", "ok", "notype", "bytes", "dir"} }
    \cup { FamilyInstance("dir", "ok", m, PlainLogs) : m \in {"absent", "nologs", "logsfile"} }
    \cup { FamilyInstance("dir", "ok", "logs", l) : l \in LogShapes({1}) }

SmallFamilyInstances ==
    {AbsentInstance, FamilyInstance("dir", "ok", "logs", PlainLogs),
     FamilyInstance("dir", "notype", "nologs", PlainLogs)}

\* root: the install path; inst: "absent", "file" or "dir"
FamilyTree(root, inst, a, b) ==
    Dirs(Prefixes(root))
    @@ (CASE inst = "absent" -> NoFiles
          [] inst = "file" -> (root \o <<"instances">>) :> FileNode(TextContent("x"), 1)
          [] OTHER -> Dirs({root \o <<"instances">>})
                 @@ FamilyInstanceTree(root \o <<"instances">>, "a", a)
                 @@ FamilyInstanceTree(root \o <<"instances">>, "b", b))
    @@ ((root \o <<"version.txt">>) :> FileNode(TextContent(" 0.7.0 "), 1))
    @@ ((root \o <<"prismlauncher_version.txt">>) :> FileNode(TextContent("8.4"), 1))

FamilyShapes ==
    { <<i, AbsentInstance, AbsentInstance>> : i \in {"absent", "file"} }
    \cup { <<"dir", a, b>> : a \in RichFamilyInstances, b \in SmallFamilyInstances }

\* the shapes given to a MultiMC install and a Prism install alike
TwinShapes ==
    { <<i, AbsentInstance, AbsentInstance>> : i \in {"absent", "file"} }
    \cup { <<"dir", a, AbsentInstance>> : a \in RichFamilyInstances }
    \cup { <<"dir", FamilyInstance("dir", "ok", "logs", PlainLogs), b>> : b \in SmallFamilyInstances }

\* --- CurseForge: Instances/<name>/manifest.json, .minecraft/logs or logs
Manifests ==
    { PyList(<<>>), PyObj(<<>>),
      PyObj(<< <<"minecraft", PyStr("x")>> >>),
      PyObj(<< <<"minecraft", PyNone>> >>),
      PyObj(<< <<"minecraft", PyObj(<<>>)>> >>),
      PyObj(<< <<"minecraft", PyObj(<< <<"version", PyStr("1.20.1")>> >>)>> >>),
      PyObj(<< <<"minecraft", PyObj(<< <<"version", PyNone>> >>)>> >>),
      PyObj(<< <<"minecraft", PyObj(<< <<"version", PyNum(5)>> >>)>> >>) }

GoodManifest == FileNode(JsonContent(PyObj(<< <<"minecraft", PyObj(<< <<"version", PyStr("1.20.1")>> >>)>> >>)), 1)

ManifestNodes ==
    { FileNode(JsonContent(v), 1) : v \in Manifests }
    \cup { FileNode(TextContent("{bad"), 1), FileNode(BytesContent, 1), DirNode }

\* s = [kind, manifest (a node, or NoNode), mclogs, logs]
CurseForgeInstanceTree(base, name, s) ==
    LET inst == base \o <<name>> IN
    CASE s.kind = "absent" -> NoFiles
      [] s.kind = "file" -> inst :> FileNode(TextContent("not a directory"), 1)
      [] OTHER ->
           Dirs({inst})
           @@ (IF s.manifest.t = "absent" THEN NoFiles ELSE (inst \o <<"manifest.json">>) :> s.manifest)
           @@ (IF s.mclogs.present
               THEN Dirs({inst \o <<".minecraft">>}) @@ LogDirTree(inst \o <<".minecraft", "logs">>, name, s.mclogs)
               ELSE NoFiles)
           @@ MaybeLogDir(inst \o <<"logs">>, name \o " fallback", s.logs)

CurseForgeInstance(kind, manifest, mclogs, logs) ==
    [kind |-> kind, manifest |-> manifest, mclogs |-> mclogs, logs |-> logs]

AbsentModpack == CurseForgeInstance("absent", NoNode, NoLogDir, NoLogDir)

RichCurseForgeInstances ==
    {AbsentModpack, CurseForgeInstance("file", NoNode, NoLogDir, NoLogDir),
     CurseForgeInstance("dir", NoNode, PlainLogs, NoLogDir)}
    \cup { CurseForgeInstance("dir", m, PlainLogs, NoLogDir) : m \in ManifestNodes }
    \cup { CurseForgeInstance("dir", GoodManifest, l, k) : l \in {NoLogDir} \cup LogShapes({1}), k \in {NoLogDir, PlainLogs} }

SmallCurseForgeInstances ==
    {AbsentModpack, CurseForgeInstance("dir", GoodManifest, PlainLogs, NoLogDir),
     CurseForgeInstance("dir", NoNode, NoLogDir, PlainLogs)}

CurseForgeTree(root, inst, a, b) ==
    Dirs(Prefixes(root))
    @@ (CASE inst = "absent" -> NoFiles
          [] inst = "file" -> (root \o <<"Instances">>) :> FileNode(TextContent("x"), 1)
          [] OTHER -> Dirs({root \o <<"Instances">>})
                 @@ CurseForgeInstanceTree(root \o <<"Instances">>, "a", a)
                 @@ CurseForgeInstanceTree(root \o <<"Instances">>, "b", b))

CurseForgeShapes ==
    { <<i, AbsentModpack, AbsentModpack>> : i \in {"absent", "file"} }
    \cup { <<"dir", a, b>> : a \in RichCurseForgeInstances, b \in SmallCurseForgeInstances }

\* --- Vanilla: launcher_profiles.json, <gameDir>/logs
GameDir1 == "/games/g1"
GameDir2 == "/games/g2"

Profile(pairs) == PyObj(pairs)

RichProfiles ==
    { PyStr("x"), Profile(<<>>),
      Profile(<< <<"lastVersionId", PyStr("1.20")>> >>),
      Profile(<< <<"lastVersionId", PyStr("1.20")>>, <<"gameDir", PyStr(GameDir1)>> >>),
      Profile(<< <<"gameDir", PyStr(GameDir1)>> >>),
      Profile(<< <<"gameDir", PyNum(5)>> >>),
      Profile(<< <<"lastVersionId", PyNum(5)>>, <<"gameDir", PyStr(GameDir1)>> >>),
      Profile(<< <<"lastVersionId", PyStr("1.20")>>, <<"gameDir", PyStr("games/rel")>> >>) }

SmallProfiles ==
    { Profile(<< <<"lastVersionId", PyStr("1.20")>> >>),
      Profile(<< <<"gameDir", PyStr(GameDir1)>> >>),
      Profile(<< <<"lastVersionId", PyStr("1.19")>>, <<"gameDir", PyStr(GameDir2)>> >>) }

LauncherVersionEntry == <<"launcherVersion", PyObj(<< <<"name", PyStr("2.1.3")>> >>)>>

\* the profiles dict: profile "a", then profile "b" when it has one
ProfilesOf(A, B) == { PyObj(<< <<"a", a>> >>) : a \in A } \cup { PyObj(<< <<"a", a>>, <<"b", b>> >>) : a \in A, b \in B }

ProfileFilesOf(A, B) == { FileNode(JsonContent(PyObj(<< LauncherVersionEntry, <<"profiles", p>> >>)), 1) : p \in ProfilesOf(A, B) }

OddProfileFiles ==
    { NoNode, DirNode, FileNode(TextContent("{bad"), 1), FileNode(BytesContent, 1),
      FileNode(JsonContent(PyList(<<>>)), 1),
      FileNode(JsonContent(PyObj(<< LauncherVersionEntry >>)), 1),
      FileNode(JsonContent(PyObj(<< LauncherVersionEntry, <<"profiles", PyList(<<>>)>> >>)), 1) }

\* pf: the node of launcher_profiles.json; own, g1, ver: the logs directories
\* <root>/logs, /games/g1/logs, <root>/versions/1.20/logs
VanillaTree(root, pf, own, g1, ver) ==
    Dirs(Prefixes(root)) @@ Dirs({<<"games">>, <<"games", "g1">>, <<"games", "g2">>})
    @@ Dirs({root \o <<"versions">>, root \o <<"versions", "1.20">>})
    @@ (IF pf.t = "absent" THEN NoFiles ELSE (root \o <<"launcher_profiles.json">>) :> pf)
    @@ MaybeLogDir(root \o <<"logs">>, "root", own)
    @@ MaybeLogDir(<<"games", "g1", "logs">>, "g1", g1)
    @@ MaybeLogDir(root \o <<"versions", "1.20", "logs">>, "1.20", ver)
    @@ LogDirTree(<<"games", "g2", "logs">>, "g2", PlainLogs)

VanillaShapes ==
    { <<pf, PlainLogs, PlainLogs, PlainLogs>> : pf \in OddProfileFiles \cup ProfileFilesOf(RichProfiles, SmallProfiles) }
    \cup { <<pf, own, g1, ver>> :
             pf \in ProfileFilesOf({Profile(<< <<"lastVersionId", PyStr("1.20")>> >>)},
                                   {Profile(<< <<"gameDir", PyStr(GameDir1)>> >>)}),
             own \in {NoLogDir} \cup LogShapes(1..MaxMtime),
             g1 \in {NoLogDir, PlainLogs}, ver \in {PlainLogs} }

(***************************************************************************)
(* The adapters under their default install paths, and the trees of the    *)
(* adapter specification: one product's install is varied at a time, and   *)
(* MultiMC and Prism are given installs of identical content.              *)
(***************************************************************************)
BaseDirs == Dirs({<<"home">>, <<"cwd">>})

Classes == {"VanillaLauncher", "MultiMCLauncher", "PrismLauncherHandler", "CurseForgeLauncher"}

\* one home directory holding an install of each of the four products
SharedHome ==
    BaseDirs
    @@ VanillaTree(VanillaLauncher_get_default_path.parts,
                   FileNode(JsonContent(PyObj(<< LauncherVersionEntry,
                       <<"profiles", PyObj(<< <<"a", Profile(<< <<"lastVersionId", PyStr("1.20")>> >>)>> >>)>> >>)), 1),
                   PlainLogs, NoLogDir, NoLogDir)
    @@ FamilyTree(MultiMCLauncher_get_default_path.parts, "dir",
                  FamilyInstance("dir", "ok", "logs", PlainLogs), AbsentInstance)
    @@ FamilyTree(PrismLauncherHandler_get_default_path.parts, "dir",
                  FamilyInstance("dir", "ok", "logs", PlainLogs), AbsentInstance)
    @@ CurseForgeTree(CurseForgeLauncher_get_default_path.parts, "dir",
                      CurseForgeInstance("dir", GoodManifest, PlainLogs, NoLogDir), AbsentModpack)

\* <<tree, the adapters constructed on it>>
Scenarios ==
    { << BaseDirs @@ VanillaTree(VanillaLauncher_get_default_path.parts, s[1], s[2], s[3], s[4]),
         {DefaultLauncher("VanillaLauncher")} >> : s \in VanillaShapes }
    \cup { << BaseDirs @@ FamilyTree(MultiMCLauncher_get_default_path.parts, s[1], s[2], s[3]),
             {DefaultLauncher("MultiMCLauncher")} >> : s \in FamilyShapes }
    \cup { << BaseDirs @@ FamilyTree(MultiMCLauncher_get_default_path.parts, s[1], s[2], s[3])
                      @@ FamilyTree(PrismLauncherHandler_get_default_path.parts, s[1], s[2], s[3]),
             {DefaultLauncher("MultiMCLauncher"), DefaultLauncher("PrismLauncherHandler")} >> : s \in TwinShapes }
    \cup { << BaseDirs @@ CurseForgeTree(CurseForgeLauncher_get_default_path.parts, s[1], s[2], s[3]),
             {DefaultLauncher("CurseForgeLauncher")} >> : s \in CurseForgeShapes }
    \cup { << BaseDirs, { DefaultLauncher(cls) : cls \in Classes } >>,
            << SharedHome, { DefaultLauncher(cls) : cls \in Classes } >> }

\* instance names the callers ask for: two that may exist, one that never does,
\* the parent directory and an absolute path
ArgNames == {"a", "b", "zz", "..", "/home"}

\* the names a glob of the instance's logs directory yields (none when unresolved)
LogListing(f, self, instance_name) ==
    LET d == Launcher_get_instance_logs_directory(f, self, instance_name) IN
    IF d.exc # "" \/ d.val.j # "path" THEN {} ELSE GlobLog(f, d.val.p)

\* the names iterdir() of the launcher's instances directory yields
InstanceListing(f, self) ==
    IF self.cls \in {"MultiMCLauncher", "PrismLauncherHandler"}
    THEN ListDir(f, PathDiv(self.launcher_path, "instances")).names
    ELSE IF self.cls = "CurseForgeLauncher"
    THEN ListDir(f, PathDiv(self.launcher_path, "Instances")).names
    ELSE {}

Call(op, self, ltype, name, res, pre) ==
    [op |-> op, self |-> self, ltype |-> ltype, name |-> name, res |-> res, pre |-> pre,
     outcomes |-> <<>>]

NoCall == Call("none", PyNone, "", "", Ok(PyNone), BaseDirs)

Init ==
    /\ \E sc \in Scenarios : fs = sc[1] /\ adapters = sc[2]
    /\ detected = <<>>
    /\ pc = 0
    /\ registered = 0
    /\ last = NoCall

Adapter_detect ==
    \E self \in adapters :
        /\ last' = Call("detect", self, "", "", Launcher_detect(fs, self), fs)
        /\ UNCHANGED <<fs, detected, pc, registered, adapters>>

Adapter_get_launcher_info ==
    \E self \in adapters, java \in JavaChoices :
        /\ last' = Call("get_launcher_info", self, "", "", Launcher_get_launcher_info(fs, self, java), fs)
        /\ UNCHANGED <<fs, detected, pc, registered, adapters>>

Adapter_get_instances ==
    \E self \in adapters :
        \E order \in Orders(InstanceListing(fs, self)) :
            /\ last' = Call("get_instances", self, "", "", Launcher_get_instances(fs, self, order), fs)
            /\ UNCHANGED <<fs, detected, pc, registered, adapters>>

Adapter_get_instance_logs_directory ==
    \E self \in adapters, name \in ArgNames :
        /\ last' = Call("get_instance_logs_directory", self, "", name,
                        Launcher_get_instance_logs_directory(fs, self, name), fs)
        /\ UNCHANGED <<fs, detected, pc, registered, adapters>>

Adapter_get_logs ==
    \E self \in adapters, name \in ArgNames :
        \E order \in Orders(LogListing(fs, self, name)) :
            /\ last' = Call("get_logs", self, "", name, Launcher_get_logs(fs, self, name, order), fs)
            /\ UNCHANGED <<fs, detected, pc, registered, adapters>>

Adapter_clear_logs ==
    \E self \in adapters, name \in ArgNames :
        \E order \in Orders(LogListing(fs, self, name)) :
            LET r == Launcher_clear_logs(fs, self, name, order) IN
            /\ fs' = r.fs
            /\ last' = Call("clear_logs", self, "", name, r.res, fs)
            /\ UNCHANGED <<detected, pc, registered, adapters>>

Next ==
    \/ Adapter_detect
    \/ Adapter_get_launcher_info
    \/ Adapter_get_instances
    \/ Adapter_get_instance_logs_directory
    \/ Adapter_get_logs
    \/ Adapter_clear_logs

Spec == Init /\ [][Next]_vars

(***************************************************************************)
(* The registry specification: a LauncherManager is constructed on a tree  *)
(* holding some of the four installs, third-party launchers are            *)
(* registered, and the registry operations are called.                     *)
(***************************************************************************)
\* what a third-party launcher's methods return or raise
Behaviour(detect, info, instances, logs, clear, dir) ==
    [detect |-> detect, get_launcher_info |-> info, get_instances |-> instances,
     get_logs |-> logs, clear_logs |-> clear, get_instance_logs_directory |-> dir]

CustomInfo == LauncherInfo("Custom", PyNone, PyPath(AbsPath(<<"opt", "custom">>)), PyNone, "custom")

CustomInstance == InstanceDict("c", "1.0", "/opt/custom/c", "instance", "custom")

\* a launcher that works, one that fails in part, one whose detect, get_instances and
\* get_logs raise
Behaviours ==
    << Behaviour(Ok(PyBool(TRUE)), Ok(CustomInfo), Ok(PyList(<<CustomInstance>>)),
                 Ok(PyStr("")), Ok(PyBool(TRUE)), Ok(PyPath(AbsPath(<<"opt", "custom", "logs">>)))),
       Behaviour(Ok(PyBool(TRUE)), Raise("RuntimeError"), Ok(PyList(<<>>)),
                 Ok(PyNone), Raise("RuntimeError"), Raise("RuntimeError")),
       Behaviour(Raise("RuntimeError"), Ok(CustomInfo), Raise("RuntimeError"),
                 Raise("RuntimeError"), Ok(PyBool(FALSE)), Ok(PyNone)) >>

\* what third parties register: <<launcher type, launcher>>, under a new type and
\* under a built-in one
Registrations ==
    { <<"custom", CustomLauncher(Behaviours[i])>> : i \in 1..Len(Behaviours) }
    \cup { <<"multimc", CustomLauncher(Behaviours[3])>> }

\* the launcher types and instance names callers ask for
QueryTypes == {"vanilla", "multimc", "prism", "curseforge", "custom", "nope"}

QueryNames == {"a", "zz"}

Faults == {"none", "ctor", "detect"}

GoodProfileFile ==
    FileNode(JsonContent(PyObj(<< LauncherVersionEntry,
        <<"profiles", PyObj(<< <<"a", Profile(<< <<"lastVersionId", PyStr("1.20")>>, <<"gameDir", PyStr(GameDir1)>> >>)>> >>)>> >>)), 1)

OddProfileFile == FileNode(JsonContent(PyObj(<< LauncherVersionEntry, <<"profiles", PyList(<<>>)>> >>)), 1)

GoodVanilla(pf) == VanillaTree(VanillaLauncher_get_default_path.parts, pf, PlainLogs, PlainLogs, PlainLogs)

GoodFamily(root) ==
    FamilyTree(root, "dir", FamilyInstance("dir", "ok", "logs", PlainLogs), AbsentInstance)

CurseForgeWith(manifest) ==
    CurseForgeTree(CurseForgeLauncher_get_default_path.parts, "dir",
                   CurseForgeInstance("dir", manifest, PlainLogs, NoLogDir), AbsentModpack)

ManagerTrees ==
    { BaseDirs,
      BaseDirs @@ GoodVanilla(GoodProfileFile)
               @@ GoodFamily(PrismLauncherHandler_get_default_path.parts),
      BaseDirs @@ GoodFamily(MultiMCLauncher_get_default_path.parts),
      BaseDirs @@ GoodVanilla(OddProfileFile)
               @@ CurseForgeWith(FileNode(JsonContent(PyList(<<>>)), 1)) }

\* the names one listing order has to cover: those of every instances directory
AllListed(f, det) == UNION { InstanceListing(f, det[i][2]) : i \in 1..Len(det) }

\* the launcher registered under launcher_type, or None
Registered(det, launcher_type) == PairsGet(det, launcher_type, PyNone)

ManagerLogListing(f, det, launcher_type, instance_name) ==
    IF Registered(det, launcher_type).j = "launcher"
    THEN LogListing(f, Registered(det, launcher_type), instance_name) ELSE {}

InitManager ==
    /\ fs \in ManagerTrees
    /\ adapters = {}
    /\ detected = <<>>
    /\ pc = 0
    /\ registered = 0
    /\ last = NoCall

Manager_init ==
    /\ pc = 0
    /\ \E faults \in [1..Len(SUPPORTED_LAUNCHERS) -> Faults] :
        /\ detected' = LauncherManager_init(fs, faults)
        /\ last' = [Call("__init__", PyNone, "", "", Ok(PyNone), fs)
                      EXCEPT !.outcomes = [i \in 1..Len(SUPPORTED_LAUNCHERS) |->
                                              LauncherManager_probe(fs, i, faults[i])]]
    /\ pc' = 1
    /\ UNCHANGED <<fs, registered, adapters>>

Manager_register_custom_launcher ==
    /\ pc = 1
    /\ registered < MaxRegister
    /\ \E reg \in Registrations :
        /\ detected' = LauncherManager_register_custom_launcher(detected, reg[1], reg[2])
        /\ last' = [Call("register_custom_launcher", reg[2], reg[1], "", Ok(PyNone), fs)
                      EXCEPT !.outcomes = detected]     \* the registry before the call
    /\ registered' = registered + 1
    /\ UNCHANGED <<fs, pc, adapters>>

Manager_get_available_launchers ==
    /\ pc = 1
    /\ last' = Call("manager.get_available_launchers", PyNone, "", "",
                    LauncherManager_get_available_launchers(detected), fs)
    /\ UNCHANGED <<fs, detected, pc, registered, adapters>>

Manager_get_launcher ==
    /\ pc = 1
    /\ \E launcher_type \in QueryTypes :
        last' = Call("manager.get_launcher", PyNone, launcher_type, "",
                     LauncherManager_get_launcher(detected, launcher_type), fs)
    /\ UNCHANGED <<fs, detected, pc, registered, adapters>>

Manager_get_all_instances ==
    /\ pc = 1
    /\ \E order \in Orders(AllListed(fs, detected)) :
        last' = Call("manager.get_all_instances", PyNone, "", "",
                     LauncherManager_get_all_instances(fs, detected, order), fs)
    /\ UNCHANGED <<fs, detected, pc, registered, adapters>>

Manager_get_launcher_infos ==
    /\ pc = 1
    /\ \E java \in JavaChoices :
        last' = Call("manager.get_launcher_infos", PyNone, "", "",
                     LauncherManager_get_launcher_infos(fs, detected, java), fs)
    /\ UNCHANGED <<fs, detected, pc, registered, adapters>>

Manager_get_logs ==
    /\ pc = 1
    /\ \E launcher_type \in QueryTypes, name \in QueryNames :
        \E order \in Orders(ManagerLogListing(fs, detected, launcher_type, name)) :
            last' = Call("manager.get_logs", PyNone, launcher_type, name,
                         LauncherManager_get_logs(fs, detected, launcher_type, name, order), fs)
    /\ UNCHANGED <<fs, detected, pc, registered, adapters>>

Manager_clear_logs ==
    /\ pc = 1
    /\ \E launcher_type \in QueryTypes, name \in QueryNames :
        \E order \in Orders(ManagerLogListing(fs, detected, launcher_type, name)) :
            LET r == LauncherManager_clear_logs(fs, detected, launcher_type, name, order) IN
            /\ fs' = r.fs
            /\ last' = Call("manager.clear_logs", PyNone, launcher_type, name, r.res, fs)
    /\ UNCHANGED <<detected, pc, registered, adapters>>

Manager_get_instance_logs_directory ==
    /\ pc = 1
    /\ \E launcher_type \in QueryTypes, name \in QueryNames :
        last' = Call("manager.get_instance_logs_directory", PyNone, launcher_type, name,
                     LauncherManager_get_instance_logs_directory(fs, detected, launcher_type, name), fs)
    /\ UNCHANGED <<fs, detected, pc, registered, adapters>>

NextManager ==
    \/ Manager_init
    \/ Manager_register_custom_launcher
    \/ Manager_get_available_launchers
    \/ Manager_get_launcher
    \/ Manager_get_all_instances
    \/ Manager_get_launcher_infos
    \/ Manager_get_logs
    \/ Manager_clear_logs
    \/ Manager_get_instance_logs_directory

SpecManager == InitManager /\ [][NextManager]_vars

(***************************************************************************)
(* The registry's properties.                                              *)
(***************************************************************************)
SeqToSet(q) == { q[i] : i \in 1..Len(q) }

\* probe i of the construction just made returned true
ProbedTrue(i) == last.outcomes[i].exc = "" /\ PyTruthy(last.outcomes[i].val)

\* the entries of SUPPORTED_LAUNCHERS whose probe returned true, in table order
RECURSIVE ProbedTrueFrom(_)
ProbedTrueFrom(i) ==
    IF i > Len(SUPPORTED_LAUNCHERS) THEN <<>>
    ELSE (IF ProbedTrue(i) THEN <<SUPPORTED_LAUNCHERS[i][1]>> ELSE <<>>) \o ProbedTrueFrom(i + 1)

\* C1: construction probes vanilla, multimc, prism, curseforge in that order; a
\* product whose constructor or detect() raises is left out, and the keys of the
\* detected mapping are exactly the products whose probe returned true, every one
\* of them holding the adapter on its default path, whatever the other probes did.
C1_DetectionIsolated ==
    last.op = "__init__" =>
        /\ DictKeys(detected) = ProbedTrueFrom(1)
        /\ \A i \in 1..Len(SUPPORTED_LAUNCHERS) :
              ProbedTrue(i) =>
                  Registered(detected, SUPPORTED_LAUNCHERS[i][1]) = DefaultLauncher(SUPPORTED_LAUNCHERS[i][2])

\* a construction in which an earlier probe raised and a later product was detected
C1_Witness ==
    /\ last.op = "__init__"
    /\ \E i, k \in 1..Len(SUPPORTED_LAUNCHERS) :
          /\ i < k
          /\ last.outcomes[i].exc # ""
          /\ ProbedTrue(k)
          /\ SUPPORTED_LAUNCHERS[k][1] \in SeqToSet(DictKeys(detected))

\* what get_all_instances owes for one registered launcher
OwnInstancesOrEmpty(f, launcher, order) ==
    LET r == Launcher_get_instances(f, launcher, order) IN
    IF r.exc # "" THEN PyList(<<>>) ELSE r.val

\* the <<type, descriptor>> pairs of the launchers whose get_launcher_info returns
RECURSIVE DescribedFrom(_, _, _)
DescribedFrom(f, items, java) ==
    IF items = <<>> THEN <<>>
    ELSE LET r == Launcher_get_launcher_info(f, items[1][2], java) IN
         (IF r.exc # "" THEN <<>> ELSE << <<items[1][1], r.val>> >>) \o DescribedFrom(f, Tail(items), java)

\* C2: get_all_instances never raises and returns a mapping whose keys are exactly
\* the registered launcher types, each failing launcher mapped to the empty list
\* and every other one to its own result; get_launcher_infos never raises and
\* returns the descriptors of exactly the launchers whose get_launcher_info returns.
C2_AggregatesIsolateFailures ==
    /\ last.op = "manager.get_all_instances" =>
          /\ last.res.exc = ""
          /\ last.res.val.j = "obj"
          /\ DictKeys(last.res.val.o) = DictKeys(detected)
          /\ \E order \in Orders(AllListed(last.pre, detected)) :
                \A i \in 1..Len(detected) :
                    last.res.val.o[i][2] = OwnInstancesOrEmpty(last.pre, detected[i][2], order)
    /\ last.op = "manager.get_launcher_infos" =>
          /\ last.res.exc = ""
          /\ last.res.val.j = "obj"
          /\ \E java \in JavaChoices : last.res.val.o = DescribedFrom(last.pre, detected, java)

\* get_all_instances over a registry in which one launcher's get_instances raises
\* and another one lists an instance
C2_Witness ==
    /\ last.op = "manager.get_all_instances"
    /\ \E i, k \in 1..Len(detected) :
          /\ Launcher_get_instances(last.pre, detected[i][2], <<"a", "b">>).exc # ""
          /\ last.res.val.o[i][2] = PyList(<<>>)
          /\ Launcher_get_instances(last.pre, detected[k][2], <<"a", "b">>).exc = ""
          /\ last.res.val.o[k][2].l # <<>>

\* C3: LauncherManager.get_logs never raises and never returns None, whatever was
\* registered: a non-empty message when no launcher is registered under the type,
\* when the launcher's get_logs returns None and when it raises, and otherwise the
\* very string the launcher returned.
C3_GetLogsAlwaysAString ==
    last.op = "manager.get_logs" =>
        /\ last.res.exc = ""
        /\ last.res.val.j = "str"
        /\ LET launcher == Registered(detected, last.ltype) IN
           IF launcher.j # "launcher" THEN last.res.val.s # ""
           ELSE \E order \in Orders(LogListing(last.pre, launcher, last.name)) :
                   LET own == Launcher_get_logs(last.pre, launcher, last.name, order) IN
                   IF own.exc # "" \/ own.val.j = "none" THEN last.res.val.s # ""
                   ELSE last.res.val = own.val

\* get_logs through the registry after a registration, on a launcher that returns None
C3_Witness ==
    /\ last.op = "manager.get_logs"
    /\ registered > 0
    /\ Registered(detected, last.ltype).j = "launcher"
    /\ Launcher_get_logs(last.pre, Registered(detected, last.ltype), last.name, <<>>) = Ok(PyNone)
    /\ last.res.val.j = "str"

(***************************************************************************)
(* The adapters' properties.  In a state reached by an adapter call, last  *)
(* holds the call, its result and the tree it ran on, and fs is the tree   *)
(* it left.                                                                *)
(***************************************************************************)
\* the logs directory the adapter resolves for the call of last, as [ok, at]: at is
\* its place in the tree; ok is false when nothing is resolved or nothing is there
ResolvedLogs ==
    LET d == Launcher_get_instance_logs_directory(last.pre, last.self, last.name) IN
    IF d.exc # "" \/ d.val.j # "path" THEN [ok |-> FALSE, at |-> <<>>]
    ELSE LET w == Stat(last.pre, d.val.p) IN [ok |-> w.err = "", at |-> w.at]

\* the entries of the resolved directory named *.log
MatchedLogs ==
    IF ResolvedLogs.ok /\ IsDirAt(last.pre, ResolvedLogs.at)
    THEN { ResolvedLogs.at \o <<n>> : n \in { c \in Children(last.pre, ResolvedLogs.at) : EndsWith(c, ".log") } }
    ELSE {}

\* the paths the call of last removed
Removed == DOMAIN last.pre \ DOMAIN fs

\* C4: clear_logs of any adapter removes nothing but entries named *.log of the
\* resolved logs directory and changes no other entry of the tree; when that
\* directory exists and its *.log entries are files (none is a directory), it
\* removes exactly all of them and returns True.
C4_ClearLogsDeletesExactlyLogs ==
    last.op = "clear_logs" =>
        /\ DOMAIN fs \subseteq DOMAIN last.pre
        /\ \A q \in DOMAIN fs : fs[q] = last.pre[q]
        /\ Removed \subseteq MatchedLogs
        /\ (ResolvedLogs.ok /\ \A q \in MatchedLogs : ~IsDirAt(last.pre, q)) =>
              /\ last.res = Ok(PyBool(TRUE))
              /\ Removed = MatchedLogs

\* a clear_logs that removed two logs and returned True, next to a kept old.log.gz
C4_Witness ==
    /\ last.op = "clear_logs"
    /\ last.res = Ok(PyBool(TRUE))
    /\ Cardinality(Removed) = 2
    /\ (ResolvedLogs.at \o <<"old.log.gz">>) \in DOMAIN fs

\* C5: clear_logs of any adapter never raises; it returns False and deletes nothing
\* when the instance or its logs directory does not exist, and it returns True only
\* when the logs directory exists and every *.log entry of it was deleted.
C5_ClearLogsNeverRaises ==
    last.op = "clear_logs" =>
        /\ last.res.exc = ""
        /\ last.res.val.j = "bool"
        /\ ~ResolvedLogs.ok => (last.res = Ok(PyBool(FALSE)) /\ fs = last.pre)
        /\ last.res = Ok(PyBool(TRUE)) => (ResolvedLogs.ok /\ Removed = MatchedLogs)

\* the install below root, by relative path
SubTree(f, root) ==
    [q \in { SubSeq(r, Len(root) + 1, Len(r)) :
               r \in { x \in DOMAIN f : Len(x) >= Len(root) /\ SubSeq(x, 1, Len(root)) = root } }
       |-> f[root \o q]]

\* the other adapter of the MultiMC family
Sibling(self) ==
    IF self.cls = "PrismLauncherHandler" THEN DefaultLauncher("MultiMCLauncher")
    ELSE DefaultLauncher("PrismLauncherHandler")

\* the call of last is made on one of two family installs of identical content
TwinCall ==
    /\ last.self.j = "launcher"
    /\ last.self.cls \in {"MultiMCLauncher", "PrismLauncherHandler"}
    /\ Sibling(last.self) \in adapters
    /\ SubTree(last.pre, last.self.launcher_path.parts) = SubTree(last.pre, Sibling(last.self).launcher_path.parts)

\* name, version label and kind of the records of a listing
Records(r) == { <<r.val.l[i].name, r.val.l[i].version, r.val.l[i].type>> : i \in 1..Len(r.val.l) }

C7_RecordsCarryOwnLauncherType ==
    (last.op = "get_instances" /\ last.res.exc = "" /\ last.res.val.j = "list") =>
        \A i \in 1..Len(last.res.val.l) :
            last.res.val.l[i].launcher =
                Launcher_get_launcher_info(last.pre, last.self, PyNone).val.launcher_type

\* C8: get_instances of any adapter never raises and never returns None; it returns
\* the empty list when the instance root does not exist.
C8_ListInstancesNeverRaises ==
    last.op = "get_instances" =>
        /\ last.res.exc = ""
        /\ last.res.val.j = "list"
        /\ ~Launcher_detect(last.pre, last.self).val.b => last.res.val.l = <<>>

\* C9: get_logs of any adapter never raises; it returns None or a string, and None
\* when the instance or its logs directory does not exist.
C9_GetLogsNeverRaises ==
    last.op = "get_logs" =>
        /\ last.res.exc = ""
        /\ last.res.val.j \in {"none", "str"}
        /\ ~ResolvedLogs.ok => last.res.val.j = "none"

\* C10: the directory the Vanilla adapter resolves for a profile is the path that
\* get_instances reports for that profile with /logs appended.
C10_VanillaLogsUnderReportedPath ==
    (/\ last.op = "get_instance_logs_directory"
     /\ last.self.cls = "VanillaLauncher"
     /\ last.res.exc = ""
     /\ last.res.val.j = "path") =>
        LET listed == Launcher_get_instances(last.pre, last.self, <<>>) IN
        listed.exc = "" =>
            \A i \in 1..Len(listed.val.l) :
                listed.val.l[i].name = last.name =>
                    PathStr(last.res.val.p) = listed.val.l[i].path \o "/logs"

\* the version source of the Vanilla adapter is missing, unreadable or malformed
VanillaVersionSourceBroken(f, self) ==
    \E data \in {LoadJson(f, PathDiv(self.launcher_path, "launcher_profiles.json"))} :
        \/ data.exc # ""
        \/ data.val.j # "obj"
        \/ PairsGet(data.val.o, "launcherVersion", PyObj(<<>>)).j # "obj"

\* the LAUNCHER_NAME and launcher type of each adapter class
DescriptorIdentity(cls) ==
    CASE cls = "VanillaLauncher" -> <<VanillaLauncher_LAUNCHER_NAME, "vanilla">>
      [] cls = "MultiMCLauncher" -> <<MultiMCLauncher_LAUNCHER_NAME, "multimc">>
      [] cls = "PrismLauncherHandler" -> <<PrismLauncherHandler_LAUNCHER_NAME, "prism">>
      [] cls = "CurseForgeLauncher" -> <<CurseForgeLauncher_LAUNCHER_NAME, "curseforge">>

\* C11: get_launcher_info of every adapter never raises; it returns a descriptor
\* whose name, path and launcher type are filled, whose version is None when the
\* Vanilla version source is missing, unreadable or malformed (invalid JSON, a
\* top-level value or a launcherVersion value that is no object), and whose
\* version is always None for CurseForge.
C11_DescribeNeverRaises ==
    last.op = "get_launcher_info" =>
        /\ last.res.exc = ""
        /\ last.res.val.j = "info"
        /\ last.res.val.name = DescriptorIdentity(last.self.cls)[1]
        /\ last.res.val.launcher_type = DescriptorIdentity(last.self.cls)[2]
        /\ last.res.val.path = last.self.launcher_path
        /\ last.self.cls = "CurseForgeLauncher" => last.res.val.version = PyNone
        /\ (last.self.cls = "VanillaLauncher" /\ VanillaVersionSourceBroken(last.pre, last.self)) =>
               last.res.val.version = PyNone

(***************************************************************************)
(* Registration.  In the state a registration leaves, last.outcomes is the *)
(* registry the call found.                                                *)
(***************************************************************************)
\* C12: register_custom_launcher stores the launcher under its type without
\* calling detect(), in place of whatever was stored under that type, and changes
\* no other entry; get_launcher of the type then returns that very launcher and
\* get_available_launchers lists the type once.  No step of the registry removes a
\* key: the set of available types only grows.
C12_RegisterInsertsAndKeysOnlyGrow ==
    [][ /\ SeqToSet(DictKeys(detected)) \subseteq SeqToSet(DictKeys(detected'))
        /\ last'.op = "register_custom_launcher" =>
              /\ LauncherManager_get_launcher(detected', last'.ltype) = Ok(last'.self)
              /\ last'.ltype \in SeqToSet(LauncherManager_get_available_launchers(detected').val.l)
              /\ SeqToSet(DictKeys(detected')) = SeqToSet(DictKeys(detected)) \cup {last'.ltype}
              /\ Cardinality(SeqToSet(DictKeys(detected'))) = Len(detected')
              /\ \A t \in QueryTypes \ {last'.ltype} :
                    Registered(detected', t) = Registered(detected, t)
      ]_vars

\* a registration that replaced a detected built-in adapter by a launcher whose
\* detect() raises
C12_Witness ==
    /\ last.op = "register_custom_launcher"
    /\ Registered(last.outcomes, last.ltype).j = "launcher"
    /\ Registered(last.outcomes, last.ltype) # last.self
    /\ Launcher_detect(last.pre, last.self).exc # ""
    /\ Registered(detected, last.ltype) = last.self
    /\ Len(detected) = Len(last.outcomes)

\* the version label owed to the CurseForge instance name: the manifest's
\* minecraft.version where the manifest has one that is not null, else "Unknown"
OwedVersionLabel(f, self, name) ==
    LET manifest == LoadJson(f, PathDiv(PathDiv(PathDiv(self.launcher_path, "Instances"), name), "manifest.json"))
        minecraft == IF manifest.exc = "" /\ manifest.val.j = "obj"
                     THEN PairsGet(manifest.val.o, "minecraft", PyNone) ELSE PyNone
        version == IF minecraft.j = "obj" THEN PairsGet(minecraft.o, "version", PyNone) ELSE PyNone
    IN IF version.j = "none" THEN PyStr("Unknown") ELSE version

\* C13: the version of every record get_instances returns is a string; for
\* CurseForge it is the manifest's minecraft.version when that value is present
\* and "Unknown" otherwise: no manifest file, invalid JSON, no minecraft entry, no
\* version entry, or a version that is null.
C13_VersionLabelIsAString ==
    (last.op = "get_instances" /\ last.res.exc = "" /\ last.res.val.j = "list") =>
        \A i \in 1..Len(last.res.val.l) :
            /\ last.res.val.l[i].version.j = "str"
            /\ last.self.cls = "CurseForgeLauncher" =>
                  last.res.val.l[i].version = OwedVersionLabel(last.pre, last.self, last.res.val.l[i].name)

\* a registry holding nothing but the adapter of last, under launcher type t
RegistryOf(t, self) == LauncherManager_register_custom_launcher(<<>>, t, self)

\* C14: when clear_logs returned True, the tree it left is one on which get_logs of
\* the same adapter and instance returns None, LauncherManager.get_logs returns the
\* "No logs found" message, and a second clear_logs returns True and deletes
\* nothing, the logs directory being still there.
C14_ClearedLogsStayCleared ==
    (last.op = "clear_logs" /\ last.res = Ok(PyBool(TRUE))) =>
        /\ Launcher_get_instance_logs_directory(fs, last.self, last.name)
              = Launcher_get_instance_logs_directory(last.pre, last.self, last.name)
        /\ ResolvedLogs.ok
        /\ ResolvedLogs.at \in DOMAIN fs
        /\ fs[ResolvedLogs.at] = last.pre[ResolvedLogs.at]
        /\ \A order \in Orders(LogListing(fs, last.self, last.name)) :
              /\ Launcher_get_logs(fs, last.self, last.name, order) = Ok(PyNone)
              /\ LauncherManager_get_logs(fs, RegistryOf("t", last.self), "t", last.name, order)
                    = Ok(PyStr("No logs found for instance " \o last.name))
              /\ Launcher_clear_logs(fs, last.self, last.name, order)
                    = [res |-> Ok(PyBool(TRUE)), fs |-> fs]

\* a clear_logs that returned True on an instance whose get_logs returned a log's
\* content and whose directory held two *.log files
C14_Witness ==
    /\ last.op = "clear_logs"
    /\ last.res = Ok(PyBool(TRUE))
    /\ Cardinality(LogListing(last.pre, last.self, last.name)) = 2
    /\ \E order \in Orders(LogListing(last.pre, last.self, last.name)) :
          \E before \in {Launcher_get_logs(last.pre, last.self, last.name, order)} :
              before.exc = "" /\ before.val.j = "str" /\ before.val.s # ""

\* the instance names get_instances lists on tree f (none when it raises)
ListedNames(f, self) ==
    LET listed == Launcher_get_instances(f, self, CHOOSE o \in Orders(InstanceListing(f, self)) : TRUE)
    IN IF listed.exc # "" \/ listed.val.j # "list" THEN {}
       ELSE { listed.val.l[i].name : i \in 1..Len(listed.val.l) }

\* C15: clear_logs of one listed instance leaves get_logs of every other listed
\* instance of the same adapter as it was, Vanilla profiles that declare no
\* gameDir or the same gameDir included.
C15_ClearLogsLeavesOtherInstances ==
    (last.op = "clear_logs" /\ last.name \in ListedNames(last.pre, last.self)) =>
        \A other \in ListedNames(last.pre, last.self) \ {last.name} :
            \A order \in Orders(LogListing(last.pre, last.self, other)) :
                Launcher_get_logs(fs, last.self, other, order)
                    = Launcher_get_logs(last.pre, last.self, other, order)

\* the instances directory of a MultiMC, Prism or CurseForge install, in the tree
InstancesRoot(self) ==
    self.launcher_path.parts \o <<IF self.cls = "CurseForgeLauncher" THEN "Instances" ELSE "instances">>

\* canonical path q lies at or below canonical path root
Under(q, root) == Len(q) >= Len(root) /\ SubSeq(q, 1, Len(root)) = root

\* C16: for the MultiMC, Prism and CurseForge adapters and every instance name, a
\* directory that get_instance_logs_directory returns exists, is a directory and
\* lies inside one instance directory of the install's instances directory; so the
\* log get_logs returns is read from there, and clear_logs removes nothing outside
\* the instances directory.
C16_LogsStayInsideInstancesRoot ==
    (last.self.j = "launcher"
     /\ last.self.cls \in {"MultiMCLauncher", "PrismLauncherHandler", "CurseForgeLauncher"}) =>
        /\ (last.op = "get_instance_logs_directory" /\ last.res.exc = "" /\ last.res.val.j = "path") =>
              /\ ResolvedLogs.ok
              /\ IsDirAt(last.pre, ResolvedLogs.at)
              /\ Under(ResolvedLogs.at, InstancesRoot(last.self))
              /\ Len(ResolvedLogs.at) >= Len(InstancesRoot(last.self)) + 2
        /\ (last.op = "get_logs" /\ last.res.exc = "" /\ last.res.val.j = "str") =>
              Under(ResolvedLogs.at, InstancesRoot(last.self))
        /\ last.op = "clear_logs" =>
              \A q \in Removed : Under(q, InstancesRoot(last.self))

====
